---- MODULE Spec2Model ----
(***************************************************************************)
(* Model of core-primitives/stf-executor: the enclave signer               *)
(* (enclave_signer.rs) with the collaborators it reads (attestation        *)
(* oracle, shielding key repository, state observer, top pool author).     *)
(*                                                                         *)
(* Each thread runs one operation of StfEnclaveSigner at a time, one step  *)
(* per collaborator call, so that the same step actions serve the          *)
(* sequential specification Spec and the interleaved one SpecConc.         *)
(***************************************************************************)
EXTENDS Integers, FiniteSets, Sequences, Bags, TLC

\* Largest value of the nonce type Index (u32 in the program, scaled down).
IndexMax == 2
\* Index arithmetic is modulo IndexMax + 1.
IndexModulus == IndexMax + 1
\* Capacity of the pending pool, all shards together.
PoolCapacity == 3

Shards == {"s1", "s2"}
Threads == {"t1", "t2"}
Calls == {"c1", "c2"}
Measurements == {"m1", "m2"}
\* Master secrets the key repository can hold; "kbad" is a secret whose
\* ed25519 derivation fails, "none" is a repository with no key to retrieve.
Secrets == {"k1", "k2"}
RepoContents == Secrets \cup {"kbad", "none"}
VaultAccounts == {"V1", "V2"}
NoVault == "no_vault"

\* The mock executor: the values its stored state takes, the headers and
\* durations its callers pass, and the longest batch of trusted calls.
MockStates == {"e0", "e1", "e2"}
Headers == {"h1", "h2"}
Durations == {"0s", "1s"}
MaxBatch == 2

VARIABLES ocall_api, shielding_key_repo, state_observer, top_pool_author, frame,
          undisturbed, invoked

\* StfExecutorMock: the stored state, its reader/writer lock, the call each
\* thread is in, and the states that completed updates have left behind.
VARIABLES state, state_lock, executor_call, completed

vars == <<ocall_api, shielding_key_repo, state_observer, top_pool_author, frame,
          undisturbed, invoked>>
env == <<ocall_api, shielding_key_repo, state_observer, top_pool_author>>
mock_vars == <<state, state_lock, executor_call, completed>>
all_vars == <<vars, mock_vars>>

----------------------------------------------------------------------------
\* Results: Ok(value), Err(error), or a panic that unwinds the caller.

NoTcs == [call |-> "none", nonce |-> 0,
          signature |-> [payload |-> <<"none", 0, "none", "none">>, signer |-> "none"]]

NoResult == [kind |-> "None", err |-> "none", account |-> "none", tcs |-> NoTcs]
OkAccount(a) == [NoResult EXCEPT !.kind = "Ok", !.account = a]
OkTcs(tcs) == [NoResult EXCEPT !.kind = "Ok", !.tcs = tcs]
Err(e) == [NoResult EXCEPT !.kind = "Err", !.err = e]
Panicked == [NoResult EXCEPT !.kind = "Panic", !.err = "attempt to add with overflow"]

\* Error values of crate::error::Error the signer returns.
AttestationUnavailable == "Sgx: mrenclave unavailable"
KeyRetrievalFailure == "Crypto: key not retrievable"
KeyDerivationFailure == "Crypto: ed25519 derivation failed"
StateReadFailure == "StateObserver: shard state inaccessible"
ConversionFailure == "Other: TryFromIntError"
VaultUndefined == "Other: shard vault undefined"

----------------------------------------------------------------------------
\* Key material.

\* DeriveEd25519::derive_ed25519: the pair derived from a master secret.
derive_ed25519(secret) ==
    CASE secret = "k1" -> "pair1"
      [] secret = "k2" -> "pair2"
      [] OTHER -> "none"

\* Pair::public().into(): the account of a pair.
public(pair) ==
    CASE pair = "pair1" -> "A1"
      [] pair = "pair2" -> "A2"
      [] OTHER -> "none"

Accounts == {public(derive_ed25519(k)) : k \in Secrets}

\* TrustedCallSigning::sign: the signature covers call, nonce, mrenclave, shard.
sign(call, pair, nonce, mrenclave, shard) ==
    [call |-> call, nonce |-> nonce,
     signature |-> [payload |-> <<call, nonce, mrenclave, shard>>, signer |-> pair]]

\* TrustedCallVerification::verify_signature against an account.
verify_signature(tcs, account, mrenclave, shard) ==
    /\ public(tcs.signature.signer) = account
    /\ tcs.signature.payload = <<tcs.call, tcs.nonce, mrenclave, shard>>

----------------------------------------------------------------------------
\* Collaborators, read through the signer's shared references. Each takes the
\* collaborator's current content as a parameter.

\* get_enclave_call_signing_key: AccessKey::retrieve_key, then derive_ed25519.
get_enclave_call_signing_key(repo) ==
    IF repo = "none"
    THEN [ok |-> FALSE, err |-> KeyRetrievalFailure, pair |-> "none"]
    ELSE IF derive_ed25519(repo) = "none"
         THEN [ok |-> FALSE, err |-> KeyDerivationFailure, pair |-> "none"]
         ELSE [ok |-> TRUE, err |-> "none", pair |-> derive_ed25519(repo)]

\* get_enclave_account: the public identity of the derived key.
get_enclave_account(repo) ==
    LET k == get_enclave_call_signing_key(repo)
    IN  [ok |-> k.ok, err |-> k.err, account |-> public(k.pair)]

\* AuthorApi::get_pending_trusted_calls_for(shard, account): the pending calls
\* of the shard authored by the account, as a bag (only its size is used).
get_pending_trusted_calls_for(pool, shard, account) ==
    LET b == pool[shard]
        mine == {e \in DOMAIN b : e.author = account}
    IN  [e \in mine |-> b[e]]

\* Vec::len of the returned calls.
len(calls) == BagCardinality(calls)

\* Index::try_from(usize): fails when the count exceeds the Index range.
try_from(count) ==
    IF count > IndexMax THEN [ok |-> FALSE, value |-> 0] ELSE [ok |-> TRUE, value |-> count]

----------------------------------------------------------------------------
\* The frame of a thread: the operation it runs, its arguments, its position
\* and the locals of the operation.

IdleFrame ==
    [op |-> "none", shard |-> "none", call |-> "none", pc |-> "idle",
     mr_enclave |-> "none", enclave_account |-> "none",
     enclave_call_signing_key |-> "none", shielding_key |-> "none",
     nonce_account |-> "none", current_nonce |-> 0,
     pending |-> EmptyBag, result |-> NoResult]

SignFrame(c, s) == [IdleFrame EXCEPT !.op = "sign", !.call = c, !.shard = s, !.pc = "mr_enclave"]
AccountFrame == [IdleFrame EXCEPT !.op = "account", !.pc = "account"]
VaultFrame(s) == [IdleFrame EXCEPT !.op = "vault", !.shard = s, !.pc = "vault"]

Finished(f, r) == [f EXCEPT !.pc = "done", !.result = r]

----------------------------------------------------------------------------
\* get_enclave_account()

GetEnclaveAccount(f, repo) ==
    LET a == get_enclave_account(repo)
    IN  Finished([f EXCEPT !.shielding_key = repo],
                 IF a.ok THEN OkAccount(a.account) ELSE Err(a.err))

----------------------------------------------------------------------------
\* get_shard_vault(shard)

\* Mutant: the vault is read from the first shard, whatever shard is asked for.
GetShardVaultOfFirstShard(f, so) ==
    LET st == so["s1"]
    IN  IF ~so[f.shard].accessible
        THEN Finished(f, Err(StateReadFailure))
        ELSE IF st.vault = NoVault
             THEN Finished(f, Err(VaultUndefined))
             ELSE Finished(f, OkAccount(st.vault))

\* Mutant: a missing vault is reported before the state is known to be readable.
GetShardVaultUndefinedFirst(f, so) ==
    LET st == so[f.shard]
    IN  IF st.vault = NoVault
        THEN Finished(f, Err(VaultUndefined))
        ELSE IF ~st.accessible
             THEN Finished(f, Err(StateReadFailure))
             ELSE Finished(f, OkAccount(st.vault))

GetShardVault(f, so) ==
    LET st == so[f.shard]
    IN  IF ~st.accessible
        THEN Finished(f, Err(StateReadFailure))
        ELSE IF st.vault = NoVault
             THEN Finished(f, Err(VaultUndefined))
             ELSE Finished(f, OkAccount(st.vault))

----------------------------------------------------------------------------
\* sign_call_with_self(trusted_call, shard), one step per collaborator call.

\* Mutant: the measurement is taken without looking at the oracle's failure.
SignMrEnclaveUnchecked(f, oc) ==
    [f EXCEPT !.mr_enclave = oc, !.pc = "enclave_account"]

\* let mr_enclave = self.ocall_api.get_mrenclave_of_self()?;
SignMrEnclave(f, oc) ==
    IF oc = "unavailable"
    THEN Finished(f, Err(AttestationUnavailable))
    ELSE [f EXCEPT !.mr_enclave = oc, !.pc = "enclave_account"]

\* let enclave_account = self.get_enclave_account()?;
SignEnclaveAccount(f, repo) ==
    LET a == get_enclave_account(repo)
    IN  IF ~a.ok
        THEN Finished(f, Err(a.err))
        ELSE [f EXCEPT !.enclave_account = a.account, !.pc = "signing_key"]

\* let enclave_call_signing_key = self.get_enclave_call_signing_key()?;
SignSigningKey(f, repo) ==
    LET k == get_enclave_call_signing_key(repo)
    IN  IF ~k.ok
        THEN Finished(f, Err(k.err))
        ELSE [f EXCEPT !.enclave_call_signing_key = k.pair,
                       !.shielding_key = repo,
                       !.pc = "nonce_account"]

\* get_enclave_account_nonce: let enclave_account = self.get_enclave_account()?;
SignNonceAccount(f, repo) ==
    LET a == get_enclave_account(repo)
    IN  IF ~a.ok
        THEN Finished(f, Err(a.err))
        ELSE [f EXCEPT !.nonce_account = a.account, !.pc = "observe_nonce"]

\* get_enclave_account_nonce: observe_state(shard, get_account_nonce(state, account))?
SignObserveNonce(f, so) ==
    LET st == so[f.shard]
    IN  IF ~st.accessible
        THEN Finished(f, Err(StateReadFailure))
        ELSE [f EXCEPT !.current_nonce = st.nonce[f.nonce_account], !.pc = "pending"]

\* Mutant: the pending calls of the shard are counted whoever authored them.
SignPendingOfAllAuthors(f, pool) ==
    [f EXCEPT !.pending = pool[f.shard], !.pc = "sign"]

\* Mutant: the pending calls of the account are counted in every shard.
SignPendingOfAllShards(f, pool) ==
    [f EXCEPT !.pending = get_pending_trusted_calls_for(pool, "s1", f.enclave_account)
                            (+) get_pending_trusted_calls_for(pool, "s2", f.enclave_account),
              !.pc = "sign"]

\* self.top_pool_author.get_pending_trusted_calls_for(*shard, &enclave_account)
SignPending(f, pool) ==
    [f EXCEPT !.pending = get_pending_trusted_calls_for(pool, f.shard, f.enclave_account),
              !.pc = "sign"]

\* Mutant: the signature is made over a fixed shard instead of the given one.
SignOutcomesFixedShard(f) ==
    LET count == try_from(len(f.pending))
        sum == f.current_nonce + count.value
        signed(n) == OkTcs(sign(f.call, f.enclave_call_signing_key, n, f.mr_enclave, "s1"))
    IN  IF ~count.ok
        THEN {Err(ConversionFailure)}
        ELSE IF sum > IndexMax
             THEN {Panicked, signed(sum % IndexModulus)}
             ELSE {signed(sum)}

\* Mutant: the nonce after the last pending one is taken to be one further.
SignOutcomesSkippingOne(f) ==
    LET count == try_from(len(f.pending))
        sum == f.current_nonce + count.value + (IF count.value > 0 THEN 1 ELSE 0)
        signed(n) == OkTcs(sign(f.call, f.enclave_call_signing_key, n, f.mr_enclave, f.shard))
    IN  IF ~count.ok
        THEN {Err(ConversionFailure)}
        ELSE IF sum > IndexMax
             THEN {Panicked, signed(sum % IndexModulus)}
             ELSE {signed(sum)}

\* Mutant: the pending count is converted but never added.
SignOutcomesCommittedOnly(f) ==
    LET count == try_from(len(f.pending))
        signed(n) == OkTcs(sign(f.call, f.enclave_call_signing_key, n, f.mr_enclave, f.shard))
    IN  IF ~count.ok THEN {Err(ConversionFailure)} ELSE {signed(f.current_nonce)}

\* Index::try_from(len)?, current_nonce.into() + pending_tx_count, and
\* trusted_call.sign(..): an overflowing addition panics or wraps, as the
\* build's overflow checks decide.
SignOutcomes(f) ==
    LET count == try_from(len(f.pending))
        sum == f.current_nonce + count.value
        signed(n) == OkTcs(sign(f.call, f.enclave_call_signing_key, n, f.mr_enclave, f.shard))
    IN  IF ~count.ok
        THEN {Err(ConversionFailure)}
        ELSE IF sum > IndexMax
             THEN {Panicked, signed(sum % IndexModulus)}
             ELSE {signed(sum)}

\* Mutant: get_enclave_account asks for the attestation first and fails
\* without it.
StepFramesAttestedAccount(f, oc, repo, so, pool) ==
    CASE f.pc = "account" ->
            {IF oc = "unavailable" THEN Finished(f, Err(AttestationUnavailable))
                                   ELSE GetEnclaveAccount(f, repo)}
      [] f.pc = "vault" -> {GetShardVault(f, so)}
      [] f.pc = "mr_enclave" -> {SignMrEnclave(f, oc)}
      [] f.pc = "enclave_account" -> {SignEnclaveAccount(f, repo)}
      [] f.pc = "signing_key" -> {SignSigningKey(f, repo)}
      [] f.pc = "nonce_account" -> {SignNonceAccount(f, repo)}
      [] f.pc = "observe_nonce" -> {SignObserveNonce(f, so)}
      [] f.pc = "pending" -> {SignPending(f, pool)}
      [] f.pc = "sign" -> {Finished(f, r) : r \in SignOutcomes(f)}
      [] OTHER -> {}

\* The frames one step of the running operation can lead to.
StepFrames(f, oc, repo, so, pool) ==
    CASE f.pc = "account" -> {GetEnclaveAccount(f, repo)}
      [] f.pc = "vault" -> {GetShardVault(f, so)}
      [] f.pc = "mr_enclave" -> {SignMrEnclave(f, oc)}
      [] f.pc = "enclave_account" -> {SignEnclaveAccount(f, repo)}
      [] f.pc = "signing_key" -> {SignSigningKey(f, repo)}
      [] f.pc = "nonce_account" -> {SignNonceAccount(f, repo)}
      [] f.pc = "observe_nonce" -> {SignObserveNonce(f, so)}
      [] f.pc = "pending" -> {SignPending(f, pool)}
      [] f.pc = "sign" -> {Finished(f, r) : r \in SignOutcomes(f)}
      [] OTHER -> {}

\* The frames the operation can end in when it runs to completion against
\* unchanging collaborators.
RECURSIVE RunFrames(_, _, _, _, _)
RunFrames(f, oc, repo, so, pool) ==
    IF f.pc = "done"
    THEN {f}
    ELSE UNION {RunFrames(g, oc, repo, so, pool) : g \in StepFrames(f, oc, repo, so, pool)}

----------------------------------------------------------------------------
\* Operations. undisturbed[t] records that no call of the account the thread
\* counted pending calls for has entered the pool of its shard since it counted.

Put(t, g) ==
    /\ frame' = [frame EXCEPT ![t] = g]
    /\ undisturbed' = [undisturbed EXCEPT ![t] =
          IF g.pc = "idle" THEN FALSE
          ELSE IF frame[t].pc = "pending" THEN TRUE
          ELSE IF frame[t].pc = "idle" /\ g.pc = "done"
               THEN g.op = "sign" /\ g.result.kind = "Ok"
               ELSE @]

\* sign_call_with_self run to completion by one caller.
sign_call_with_self(t, c, s) ==
    /\ frame[t].pc = "idle"
    /\ \E g \in RunFrames(SignFrame(c, s), ocall_api, shielding_key_repo,
                          state_observer, top_pool_author) : Put(t, g)
    /\ UNCHANGED <<env, invoked>>

\* get_enclave_account run to completion by one caller.
get_enclave_account_call(t) ==
    /\ frame[t].pc = "idle"
    /\ \E g \in RunFrames(AccountFrame, ocall_api, shielding_key_repo,
                          state_observer, top_pool_author) : Put(t, g)
    /\ UNCHANGED <<env, invoked>>

\* get_shard_vault run to completion by one caller.
get_shard_vault(t, s) ==
    /\ frame[t].pc = "idle"
    /\ \E g \in RunFrames(VaultFrame(s), ocall_api, shielding_key_repo,
                          state_observer, top_pool_author) : Put(t, g)
    /\ UNCHANGED <<env, invoked>>

\* A thread enters an operation; its steps then interleave with the other
\* thread's and with the environment's.
Invoke(t, f) ==
    /\ frame[t].pc = "idle" /\ ~invoked[t]
    /\ Put(t, f)
    /\ invoked' = [invoked EXCEPT ![t] = TRUE]
    /\ UNCHANGED env

\* Mutant: the step that signs also puts the signed call into the pool.
StepInsertingSignedCall(t) ==
    /\ frame[t].pc \notin {"idle", "done"}
    /\ \E g \in StepFrames(frame[t], ocall_api, shielding_key_repo,
                           state_observer, top_pool_author) :
          /\ Put(t, g)
          /\ top_pool_author' =
                IF g.pc = "done" /\ g.op = "sign" /\ g.result.kind = "Ok"
                THEN [top_pool_author EXCEPT ![g.shard] =
                         @ (+) SetToBag({[author |-> public(g.result.tcs.signature.signer),
                                          nonce |-> g.result.tcs.nonce]})]
                ELSE top_pool_author
    /\ UNCHANGED <<ocall_api, shielding_key_repo, state_observer, invoked>>

\* Mutant: the signer serializes its invocations; a thread steps only while
\* no other thread is inside an operation.
StepSerialized(t) ==
    /\ frame[t].pc \notin {"idle", "done"}
    /\ \A u \in Threads \ {t} : frame[u].pc \in {"idle", "done"}
    /\ \E g \in StepFrames(frame[t], ocall_api, shielding_key_repo,
                           state_observer, top_pool_author) : Put(t, g)
    /\ UNCHANGED <<env, invoked>>

\* One step of the operation thread t is in.
Step(t) ==
    /\ frame[t].pc \notin {"idle", "done"}
    /\ \E g \in StepFrames(frame[t], ocall_api, shielding_key_repo,
                           state_observer, top_pool_author) : Put(t, g)
    /\ UNCHANGED <<env, invoked>>

----------------------------------------------------------------------------
\* The environment: the caller, the state-transition engine that confirms
\* pending calls, and the owners of the other collaborators.

PoolSize(pool) == BagCardinality(pool["s1"]) + BagCardinality(pool["s2"])

PoolEntry(tcs) == [author |-> public(tcs.signature.signer), nonce |-> tcs.nonce]

\* The caller takes the result and submits the signed call to the pool.
SubmitCall(t) ==
    /\ frame[t].pc = "done" /\ frame[t].op = "sign" /\ frame[t].result.kind = "Ok"
    /\ PoolSize(top_pool_author) < PoolCapacity
    /\ top_pool_author' = [top_pool_author EXCEPT ![frame[t].shard] =
                              @ (+) SetToBag({PoolEntry(frame[t].result.tcs)})]
    /\ frame' = [frame EXCEPT ![t] = IdleFrame]
    /\ undisturbed' = [u \in Threads |->
          /\ u # t
          /\ undisturbed[u]
          /\ ~(/\ frame[u].shard = frame[t].shard
               /\ frame[u].enclave_account = PoolEntry(frame[t].result.tcs).author)]
    /\ UNCHANGED <<ocall_api, shielding_key_repo, state_observer, invoked>>

\* The caller takes the result and does nothing more with it.
Drop(t) ==
    /\ frame[t].pc = "done"
    /\ Put(t, IdleFrame)
    /\ UNCHANGED <<env, invoked>>

\* A pending call whose nonce is the committed one is executed: it leaves the
\* pool and the committed nonce of its author advances by one.
Confirm(s, e) ==
    /\ e \in BagToSet(top_pool_author[s])
    /\ state_observer[s].nonce[e.author] = e.nonce
    /\ e.nonce < IndexMax
    /\ top_pool_author' = [top_pool_author EXCEPT ![s] = @ (-) SetToBag({e})]
    /\ state_observer' = [state_observer EXCEPT ![s].nonce[e.author] = @ + 1]
    /\ UNCHANGED <<ocall_api, shielding_key_repo, frame, undisturbed, invoked>>

\* The key repository's owner replaces (or loses) the master secret.
ReplaceKey(k) ==
    /\ k # shielding_key_repo
    /\ shielding_key_repo' = k
    /\ UNCHANGED <<ocall_api, state_observer, top_pool_author, frame, undisturbed, invoked>>

\* A shard's state becomes inaccessible, or accessible again.
SetAccessible(s) ==
    /\ state_observer' = [state_observer EXCEPT ![s].accessible = ~@]
    /\ UNCHANGED <<ocall_api, shielding_key_repo, top_pool_author, frame, undisturbed, invoked>>

\* The state-transition engine sets a shard's vault.
SetVault(s, v) ==
    /\ state_observer[s].vault = NoVault
    /\ state_observer' = [state_observer EXCEPT ![s].vault = v]
    /\ UNCHANGED <<ocall_api, shielding_key_repo, top_pool_author, frame, undisturbed, invoked>>

PoolEntries == [author : Accounts, nonce : 0..IndexMax]

----------------------------------------------------------------------------
\* StfExecutorMock (mocks.rs): one State behind a RwLock.

\* The transformations callers pass as prepare_state_function; the last one
\* panics instead of returning a state.
Transformations == {"identity", "rotate", "reset"}
PanickingTransformation == "panics"

\* prepare_state_function(state) for a transformation that returns.
prepare_state_function(f, s) ==
    CASE f = "identity" -> s
      [] f = "rotate" -> (CASE s = "e0" -> "e1" [] s = "e1" -> "e2" [] OTHER -> "e0")
      [] f = "reset" -> "e0"
      [] OTHER -> s

\* The batches of trusted calls a caller passes.
Batches == UNION {[1..n -> Calls] : n \in 0..MaxBatch}

\* c.hash(): the content hash of a trusted operation.
hash(c) == <<"blake2_256", c>>

\* TrustedOperationOrHash::from_top(c.clone())
from_top(c) == [kind |-> "Operation", top |-> c]

\* ExecutedOperation::success(operation_hash, top_or_hash, extrinsic_call_backs)
success(operation_hash, top_or_hash, extrinsic_call_backs) ==
    [status |-> [kind |-> "Success", hash |-> operation_hash,
                 extrinsic_call_backs |-> extrinsic_call_backs],
     trusted_operation_or_hash |-> top_or_hash]

\* H256::default()
H256Default == "0x00"

\* What a call of the mock executor returns: a BatchExecutionResult, a State,
\* or a panic.
NoExecutorResult ==
    [kind |-> "None", panic |-> "none", executed_operations |-> << >>,
     state_hash_before_execution |-> "none", state_after_execution |-> "none",
     state |-> "none"]
OkBatch(ops, before, after) ==
    [NoExecutorResult EXCEPT !.kind = "Ok", !.executed_operations = ops,
                             !.state_hash_before_execution = before,
                             !.state_after_execution = after]
OkState(s) == [NoExecutorResult EXCEPT !.kind = "Ok", !.state = s]
Panic(msg) == [NoExecutorResult EXCEPT !.kind = "Panic", !.panic = msg]
PoisonError == "called Result::unwrap() on an Err value: PoisonError"
TransformationPanic == "prepare_state_function panicked"

\* The call a thread is in: its arguments, its position and its locals.
IdleCall ==
    [op |-> "none", pc |-> "idle", trusted_calls |-> << >>, header |-> "none",
     shard |-> "none", max_exec_duration |-> "none",
     prepare_state_function |-> "none", cloned |-> "none",
     updated_state |-> "none", result |-> NoExecutorResult]

FreeLock == [writer |-> "none", readers |-> {}, poisoned |-> FALSE]

\* The executor nobody uses.
MockAtRest ==
    /\ state = "e0"
    /\ state_lock = FreeLock
    /\ executor_call = [t \in Threads |-> IdleCall]
    /\ completed = {"e0"}

\* A caller enters propose_state_update(trusted_calls, header, shard,
\* max_exec_duration, prepare_state_function).
propose_state_update(t, calls, h, s, d, f) ==
    /\ executor_call[t].pc = "idle"
    /\ executor_call' = [executor_call EXCEPT ![t] =
          [IdleCall EXCEPT !.op = "propose_state_update", !.pc = "write",
                           !.trusted_calls = calls, !.header = h, !.shard = s,
                           !.max_exec_duration = d, !.prepare_state_function = f]]
    /\ UNCHANGED <<vars, state, state_lock, completed>>

\* let mut lock = self.state.write().unwrap(): waits until no reader and no
\* writer holds the lock; on a poisoned lock write() is an Err and unwrap
\* panics, dropping the guard it was handed.
AcquireWrite(t) ==
    /\ executor_call[t].pc = "write"
    /\ state_lock.writer = "none" /\ state_lock.readers = {}
    /\ IF state_lock.poisoned
       THEN /\ executor_call' = [executor_call EXCEPT ![t].pc = "done",
                                                      ![t].result = Panic(PoisonError)]
            /\ UNCHANGED state_lock
       ELSE /\ executor_call' = [executor_call EXCEPT ![t].pc = "prepare"]
            /\ state_lock' = [state_lock EXCEPT !.writer = t]
    /\ UNCHANGED <<vars, state, completed>>

\* Mutant: max_exec_duration is enforced, and with no time left the
\* transformation is not applied.
PrepareStateWithinDuration(t) ==
    /\ executor_call[t].pc = "prepare"
    /\ executor_call' = [executor_call EXCEPT
          ![t].pc = "store", ![t].cloned = state,
          ![t].updated_state =
              IF executor_call[t].max_exec_duration = "0s"
              THEN state
              ELSE prepare_state_function(executor_call[t].prepare_state_function, state)]
    /\ UNCHANGED <<vars, state, state_lock, completed>>

\* let updated_state = prepare_state_function((*lock.deref()).clone()): a
\* panic of the transformation unwinds through the write guard, which
\* releases the lock and poisons it.
PrepareState(t) ==
    /\ executor_call[t].pc = "prepare"
    /\ IF executor_call[t].prepare_state_function = PanickingTransformation
       THEN /\ executor_call' = [executor_call EXCEPT
                  ![t].pc = "done", ![t].cloned = state,
                  ![t].result = Panic(TransformationPanic)]
            /\ state_lock' = [state_lock EXCEPT !.writer = "none", !.poisoned = TRUE]
       ELSE /\ executor_call' = [executor_call EXCEPT
                  ![t].pc = "store", ![t].cloned = state,
                  ![t].updated_state =
                      prepare_state_function(executor_call[t].prepare_state_function, state)]
            /\ UNCHANGED state_lock
    /\ UNCHANGED <<vars, state, completed>>

\* *lock = updated_state.clone()
StoreState(t) ==
    /\ executor_call[t].pc = "store"
    /\ state' = executor_call[t].updated_state
    /\ executor_call' = [executor_call EXCEPT ![t].pc = "records"]
    /\ UNCHANGED <<vars, state_lock, completed>>

\* Mutant: the records are keyed by content hash, so a call that occurs twice
\* in the batch gets one record.
RECURSIVE executed_operations_by_hash(_)
executed_operations_by_hash(calls) ==
    IF calls = << >> THEN << >>
    ELSE LET front == SubSeq(calls, 1, Len(calls) - 1)
             last == calls[Len(calls)]
         IN  IF \E i \in 1..Len(front) : hash(front[i]) = hash(last)
             THEN executed_operations_by_hash(front)
             ELSE Append(executed_operations_by_hash(front),
                         success(hash(last), from_top(last), << >>))

\* The executed_operations of a batch: one success record per call, in order.
executed_operations(calls) ==
    [i \in 1..Len(calls) |-> success(hash(calls[i]), from_top(calls[i]), << >>)]

\* let executed_operations = ...; Ok(BatchExecutionResult { .. }): the write
\* guard is dropped as the function returns.
ReturnBatch(t) ==
    /\ executor_call[t].pc = "records"
    /\ executor_call' = [executor_call EXCEPT
          ![t].pc = "done",
          ![t].result = OkBatch(executed_operations(executor_call[t].trusted_calls),
                                H256Default, executor_call[t].updated_state)]
    /\ state_lock' = [state_lock EXCEPT !.writer = "none"]
    /\ completed' = completed \cup {executor_call[t].updated_state}
    /\ UNCHANGED <<vars, state>>

\* A caller enters get_state().
get_state(t) ==
    /\ executor_call[t].pc = "idle"
    /\ executor_call' = [executor_call EXCEPT ![t] =
          [IdleCall EXCEPT !.op = "get_state", !.pc = "read"]]
    /\ UNCHANGED <<vars, state, state_lock, completed>>

\* Mutant: the state is read without waiting for the writer.
AcquireReadWhileWriting(t) ==
    /\ executor_call[t].pc = "read"
    /\ executor_call' = [executor_call EXCEPT ![t].pc = "clone"]
    /\ state_lock' = [state_lock EXCEPT !.readers = @ \cup {t}]
    /\ UNCHANGED <<vars, state, completed>>

\* self.state.read().unwrap(): waits until no writer holds the lock; on a
\* poisoned lock read() is an Err and unwrap panics.
AcquireRead(t) ==
    /\ executor_call[t].pc = "read"
    /\ state_lock.writer = "none"
    /\ IF state_lock.poisoned
       THEN /\ executor_call' = [executor_call EXCEPT ![t].pc = "done",
                                                      ![t].result = Panic(PoisonError)]
            /\ UNCHANGED state_lock
       ELSE /\ executor_call' = [executor_call EXCEPT ![t].pc = "clone"]
            /\ state_lock' = [state_lock EXCEPT !.readers = @ \cup {t}]
    /\ UNCHANGED <<vars, state, completed>>

\* (*guard.deref()).clone()
CloneState(t) ==
    /\ executor_call[t].pc = "clone"
    /\ executor_call' = [executor_call EXCEPT ![t].pc = "release", ![t].cloned = state]
    /\ UNCHANGED <<vars, state, state_lock, completed>>

\* Mutant: the clone is returned with the read guard still held.
ReturnStateKeepingGuard(t) ==
    /\ executor_call[t].pc = "release"
    /\ executor_call' = [executor_call EXCEPT
          ![t].pc = "done", ![t].result = OkState(executor_call[t].cloned)]
    /\ UNCHANGED <<vars, state, state_lock, completed>>

\* The read guard is dropped at the end of the statement and the clone is
\* returned.
ReturnState(t) ==
    /\ executor_call[t].pc = "release"
    /\ executor_call' = [executor_call EXCEPT
          ![t].pc = "done", ![t].result = OkState(executor_call[t].cloned)]
    /\ state_lock' = [state_lock EXCEPT !.readers = @ \ {t}]
    /\ UNCHANGED <<vars, state, completed>>

\* The caller takes the result (or the panic) of its call.
TakeResult(t) ==
    /\ executor_call[t].pc = "done"
    /\ executor_call' = [executor_call EXCEPT ![t] = IdleCall]
    /\ UNCHANGED <<vars, state, state_lock, completed>>

----------------------------------------------------------------------------

Init ==
    /\ ocall_api \in {"m2", "unavailable"}
    /\ shielding_key_repo = "k1"
    /\ state_observer = [s \in Shards |->
                           [accessible |-> TRUE, vault |-> NoVault,
                            nonce |-> [a \in Accounts |-> 0]]]
    /\ top_pool_author = [s \in Shards |-> EmptyBag]
    /\ frame = [t \in Threads |-> IdleFrame]
    /\ undisturbed = [t \in Threads |-> FALSE]
    /\ invoked = [t \in Threads |-> FALSE]
    /\ MockAtRest

AllIdle == \A t \in Threads : frame[t].pc = "idle"

\* Sequential use by one caller: an operation runs to completion, the caller
\* takes its result, and the environment moves between operations.
Next ==
    \/ \E c \in Calls, s \in Shards : AllIdle /\ sign_call_with_self("t1", c, s) /\ UNCHANGED mock_vars
    \/ AllIdle /\ get_enclave_account_call("t1") /\ UNCHANGED mock_vars
    \/ SubmitCall("t1") /\ UNCHANGED mock_vars
    \/ Drop("t1") /\ UNCHANGED mock_vars
    \/ \E s \in Shards, e \in PoolEntries : AllIdle /\ Confirm(s, e) /\ UNCHANGED mock_vars
    \/ \E k \in RepoContents : AllIdle /\ ReplaceKey(k) /\ UNCHANGED mock_vars
    \/ \E s \in Shards : AllIdle /\ SetAccessible(s) /\ UNCHANGED mock_vars

Spec == Init /\ [][Next]_all_vars

\* The vault resolver in sequential use, with the vaults being configured.
NextVault ==
    \/ \E s \in Shards : AllIdle /\ get_shard_vault("t1", s) /\ UNCHANGED mock_vars
    \/ AllIdle /\ get_enclave_account_call("t1") /\ UNCHANGED mock_vars
    \/ Drop("t1") /\ UNCHANGED mock_vars
    \/ \E s \in Shards, v \in VaultAccounts : AllIdle /\ SetVault(s, v) /\ UNCHANGED mock_vars
    \/ \E s \in Shards : AllIdle /\ SetAccessible(s) /\ UNCHANGED mock_vars
    \/ \E k \in RepoContents : AllIdle /\ ReplaceKey(k) /\ UNCHANGED mock_vars

SpecVault == Init /\ [][NextVault]_all_vars

\* The pending calls of a caller that signed and submitted p calls in a row
\* from committed nonce n.
RECURSIVE Backlog(_, _, _)
Backlog(a, n, p) ==
    IF p = 0 THEN EmptyBag
    ELSE Backlog(a, n, p - 1) (+) SetToBag({[author |-> a, nonce |-> n + p - 1]})

\* The shard the concurrent callers work on.
ConcShard == "s1"

\* Concurrent use starts from any committed nonce n and backlog of p pending
\* self-issued calls that sequential signing and confirming lead to.
InitConc ==
    /\ ocall_api = "m1"
    /\ shielding_key_repo = "k1"
    /\ \E n \in 0..IndexMax, p \in 0..IndexMax :
          /\ n + p <= IndexMax + 1
          /\ state_observer = [s \in Shards |->
                [accessible |-> TRUE, vault |-> NoVault,
                 nonce |-> [a \in Accounts |-> IF s = ConcShard /\ a = "A1" THEN n ELSE 0]]]
          /\ top_pool_author = [s \in Shards |->
                IF s = ConcShard THEN Backlog("A1", n, p) ELSE EmptyBag]
    /\ frame = [t \in Threads |-> IdleFrame]
    /\ undisturbed = [t \in Threads |-> FALSE]
    /\ invoked = [t \in Threads |-> FALSE]
    /\ MockAtRest

\* Concurrent use: two threads each step through one operation while the
\* environment moves.
NextConc ==
    \/ \E t \in Threads, c \in Calls : Invoke(t, SignFrame(c, ConcShard)) /\ UNCHANGED mock_vars
    \/ \E t \in Threads : Invoke(t, AccountFrame) /\ UNCHANGED mock_vars
    \/ \E t \in Threads : Invoke(t, VaultFrame(ConcShard)) /\ UNCHANGED mock_vars
    \/ \E t \in Threads : Step(t) /\ UNCHANGED mock_vars
    \/ \E t \in Threads : SubmitCall(t) /\ UNCHANGED mock_vars
    \/ \E t \in Threads : Drop(t) /\ UNCHANGED mock_vars
    \/ \E e \in PoolEntries : Confirm(ConcShard, e) /\ UNCHANGED mock_vars
    \/ \E k \in Secrets : ReplaceKey(k) /\ UNCHANGED mock_vars

SpecConc == InitConc /\ [][NextConc]_all_vars

\* One invocation of sign_call_with_self taken step by step while the key
\* repository and the shards' readability change under it; every account has
\* committed nonce 1 and one pending call in every shard, so that a frame
\* shows whether the committed state and the pool were read.
InitSteps ==
    /\ ocall_api \in {"m1", "unavailable"}
    /\ shielding_key_repo = "k1"
    /\ state_observer = [s \in Shards |->
                           [accessible |-> TRUE, vault |-> NoVault,
                            nonce |-> [a \in Accounts |-> 1]]]
    /\ top_pool_author = [s \in Shards |->
                            SetToBag({[author |-> a, nonce |-> 1] : a \in Accounts})]
    /\ frame = [t \in Threads |-> IdleFrame]
    /\ undisturbed = [t \in Threads |-> FALSE]
    /\ invoked = [t \in Threads |-> FALSE]
    /\ MockAtRest

NextSteps ==
    \/ \E c \in Calls, s \in Shards : Invoke("t1", SignFrame(c, s)) /\ UNCHANGED mock_vars
    \/ Step("t1") /\ UNCHANGED mock_vars
    \/ Drop("t1") /\ UNCHANGED mock_vars
    \/ \E k \in RepoContents : ReplaceKey(k) /\ UNCHANGED mock_vars
    \/ \E s \in Shards : SetAccessible(s) /\ UNCHANGED mock_vars

SpecSteps == InitSteps /\ [][NextSteps]_all_vars

\* The signer nobody uses.
SignerAtRest ==
    /\ ocall_api = "m1"
    /\ shielding_key_repo = "k1"
    /\ state_observer = [s \in Shards |->
                           [accessible |-> TRUE, vault |-> NoVault,
                            nonce |-> [a \in Accounts |-> 0]]]
    /\ top_pool_author = [s \in Shards |-> EmptyBag]
    /\ frame = [t \in Threads |-> IdleFrame]
    /\ undisturbed = [t \in Threads |-> FALSE]
    /\ invoked = [t \in Threads |-> FALSE]

\* StfExecutorMock::new(state), for any state.
InitMock ==
    /\ state \in MockStates
    /\ state_lock = FreeLock
    /\ executor_call = [t \in Threads |-> IdleCall]
    /\ completed = {state}
    /\ SignerAtRest

\* The mock executor used by one caller, one call after the other, with every
\* batch, header, shard, duration and transformation.
NextMockSeq ==
    \/ \E calls \in Batches, h \in Headers, s \in Shards, d \in Durations,
          f \in Transformations \cup {PanickingTransformation} :
            propose_state_update("t1", calls, h, s, d, f)
    \/ get_state("t1")
    \/ AcquireWrite("t1")
    \/ PrepareState("t1")
    \/ StoreState("t1")
    \/ ReturnBatch("t1")
    \/ AcquireRead("t1")
    \/ CloneState("t1")
    \/ ReturnState("t1")
    \/ TakeResult("t1")

SpecMockSeq == InitMock /\ [][NextMockSeq]_all_vars

\* The steps of the calls the threads are in.
MockStep(t) ==
    \/ AcquireWrite(t)
    \/ PrepareState(t)
    \/ StoreState(t)
    \/ ReturnBatch(t)
    \/ AcquireRead(t)
    \/ CloneState(t)
    \/ ReturnState(t)

\* The mock executor shared by two threads whose calls interleave step by
\* step; a transformation may panic.
NextMock ==
    \/ \E t \in Threads, f \in Transformations \cup {PanickingTransformation} :
          propose_state_update(t, <<"c1">>, "h1", "s1", "1s", f)
    \/ \E t \in Threads : get_state(t)
    \/ \E t \in Threads : MockStep(t)
    \/ \E t \in Threads : TakeResult(t)

SpecMock == InitMock /\ [][NextMock]_all_vars

\* The same with transformations that return.
NextMockLive ==
    \/ \E t \in Threads, f \in Transformations :
          propose_state_update(t, <<"c1">>, "h1", "s1", "1s", f)
    \/ \E t \in Threads : get_state(t)
    \/ \E t \in Threads : MockStep(t)
    \/ \E t \in Threads : TakeResult(t)

\* Fair scheduling: a thread that can take the next step of its call
\* eventually takes it, and a thread waiting for the lock gets it if the lock
\* is free again and again. Callers need not start calls nor take results.
MockFairness ==
    \A t \in Threads :
        /\ SF_all_vars(AcquireWrite(t))
        /\ SF_all_vars(AcquireRead(t))
        /\ WF_all_vars(PrepareState(t))
        /\ WF_all_vars(StoreState(t))
        /\ WF_all_vars(ReturnBatch(t))
        /\ WF_all_vars(CloneState(t))
        /\ WF_all_vars(ReturnState(t))

SpecMockLive == InitMock /\ [][NextMockLive]_all_vars /\ MockFairness

----------------------------------------------------------------------------
\* Vocabulary of the properties.

DoneSign(t) == frame[t].pc = "done" /\ frame[t].op = "sign"
SignedOk(t) == DoneSign(t) /\ frame[t].result.kind = "Ok"

\* The account of the master secret the repository holds.
EnclaveAccount == public(derive_ed25519(shielding_key_repo))

\* Number of pending calls of shard s authored by account a with nonce <= k.
RECURSIVE PendingUpTo(_, _, _)
PendingUpTo(s, a, k) ==
    IF k < 0 THEN 0
    ELSE CopiesIn([author |-> a, nonce |-> k], top_pool_author[s]) + PendingUpTo(s, a, k - 1)

PendingOf(s, a) == PendingUpTo(s, a, IndexMax)

\* Contents another shard may have: readable or not, and either untouched
\* (committed nonces 0, no pending call) or busy (committed nonces at the
\* maximum, a pending call of every account).
OtherShardContents ==
    {[state |-> [accessible |-> b, vault |-> NoVault,
                 nonce |-> [a \in Accounts |-> IF busy THEN IndexMax ELSE 0]],
      pool |-> IF busy THEN SetToBag({[author |-> a, nonce |-> 0] : a \in Accounts})
                       ELSE EmptyBag] :
        b \in BOOLEAN, busy \in BOOLEAN}

----------------------------------------------------------------------------
\* C1: a successful sign_call_with_self(call, s) signs with the committed
\* nonce of the enclave account in s plus the number of pending calls of s
\* authored by the enclave account, when that sum does not overflow; pending
\* calls of other authors are not counted.
C1_AdjustedNonceIsCommittedPlusPending ==
    \A t \in Threads :
        SignedOk(t) =>
            LET s == frame[t].shard
                n == state_observer[s].nonce[EnclaveAccount]
                p == PendingOf(s, EnclaveAccount)
            IN  n + p <= IndexMax => frame[t].result.tcs.nonce = n + p

\* A call signed with nonce n + p, n >= 1, p >= 1, while another account has
\* a pending call in the same shard.
C1_Witness ==
    \E t \in Threads :
        /\ SignedOk(t)
        /\ state_observer[frame[t].shard].nonce[EnclaveAccount] >= 1
        /\ PendingOf(frame[t].shard, EnclaveAccount) >= 1
        /\ \E a \in Accounts \ {EnclaveAccount} : PendingOf(frame[t].shard, a) >= 1
        /\ frame[t].result.tcs.nonce =
              state_observer[frame[t].shard].nonce[EnclaveAccount]
              + PendingOf(frame[t].shard, EnclaveAccount)

\* C2: whenever committed nonce + pending count exceeds the maximum of the
\* nonce type, sign_call_with_self returns a failure (NonceOverflow) and never
\* a signed call with the wrapped sum.
C2_OverflowIsReturnedAsFailure ==
    \A t \in Threads :
        (/\ DoneSign(t)
         /\ frame[t].result.err \notin {AttestationUnavailable, KeyRetrievalFailure,
                                        KeyDerivationFailure, StateReadFailure}
         /\ state_observer[frame[t].shard].nonce[EnclaveAccount]
              + PendingOf(frame[t].shard, EnclaveAccount) > IndexMax)
        => frame[t].result.kind = "Err"

\* C3: a signed call whose shard's pool no call of the enclave account has
\* entered since the signer counted carries a nonce different from that of
\* every self-issued call still pending in the shard, whatever confirmations
\* interleave with the signer's committed-nonce read and pool count. Stated
\* for the invocations that saw one master secret throughout and whose
\* addition did not overflow.
C3_NonceNotClaimedByPendingCall ==
    \A t \in Threads :
        (/\ SignedOk(t)
         /\ undisturbed[t]
         /\ frame[t].nonce_account = frame[t].enclave_account
         /\ public(frame[t].enclave_call_signing_key) = frame[t].enclave_account
         /\ frame[t].current_nonce + len(frame[t].pending) <= IndexMax)
        => \A e \in BagToSet(top_pool_author[frame[t].shard]) :
              e.author = frame[t].enclave_account => e.nonce # frame[t].result.tcs.nonce

\* C4 as stated: two distinct signed outputs for the same account and shard
\* produced from the same observed pool snapshot never carry the same nonce.
C4_NoReuseWithinSnapshot ==
    \A t, u \in Threads :
        (/\ t # u
         /\ SignedOk(t) /\ SignedOk(u)
         /\ frame[t].shard = frame[u].shard
         /\ frame[t].enclave_account = frame[u].enclave_account
         /\ frame[t].pending = frame[u].pending
         /\ frame[t].result.tcs # frame[u].result.tcs)
        => frame[t].result.tcs.nonce # frame[u].result.tcs.nonce

\* C4 amended: two signed outputs for the same account and shard computed from
\* the same committed nonce carry the same adjusted nonce exactly when the
\* pool snapshots they observed hold the same number of pending self-issued
\* calls (the same snapshot gives the same nonce, different counts never do).
C4_SameNonceIffSameCount ==
    \A t, u \in Threads :
        (/\ t # u
         /\ SignedOk(t) /\ SignedOk(u)
         /\ frame[t].shard = frame[u].shard
         /\ frame[t].nonce_account = frame[u].nonce_account
         /\ frame[t].enclave_account = frame[u].enclave_account
         /\ frame[t].current_nonce = frame[u].current_nonce)
        => (frame[t].result.tcs.nonce = frame[u].result.tcs.nonce
              <=> len(frame[t].pending) = len(frame[u].pending))

\* Two distinct calls signed from the same non-empty snapshot, with the same
\* nonce.
C4_Witness ==
    \E t, u \in Threads :
        /\ t # u
        /\ SignedOk(t) /\ SignedOk(u)
        /\ frame[t].shard = frame[u].shard
        /\ frame[t].enclave_account = frame[u].enclave_account
        /\ frame[t].current_nonce = frame[u].current_nonce
        /\ frame[t].pending = frame[u].pending
        /\ len(frame[t].pending) >= 1
        /\ frame[t].call # frame[u].call
        /\ frame[t].result.tcs.nonce = frame[u].result.tcs.nonce

\* C5: shard isolation. The outcome of sign_call_with_self(call, s) is an
\* outcome of the same call against any environment that agrees on shard s
\* and differs in the committed nonces, pending calls or readability of the
\* other shards.
C5_OutcomeIndependentOfOtherShards ==
    \A t \in Threads :
        DoneSign(t) =>
            \A o \in OtherShardContents :
                frame[t] \in RunFrames(
                    SignFrame(frame[t].call, frame[t].shard),
                    ocall_api, shielding_key_repo,
                    [x \in Shards |-> IF x = frame[t].shard THEN state_observer[x] ELSE o.state],
                    [x \in Shards |-> IF x = frame[t].shard THEN top_pool_author[x] ELSE o.pool])

\* A call signed for a shard while another shard is inaccessible, has another
\* committed nonce and holds more pending calls of the enclave account.
C5_Witness ==
    \E t \in Threads, x \in Shards :
        /\ SignedOk(t)
        /\ x # frame[t].shard
        /\ ~state_observer[x].accessible
        /\ state_observer[x].nonce[EnclaveAccount]
             # state_observer[frame[t].shard].nonce[EnclaveAccount]
        /\ PendingOf(x, EnclaveAccount) > PendingOf(frame[t].shard, EnclaveAccount)

\* C6: a returned signed call carries the given call and the adjusted nonce of
\* this invocation, and its signature covers exactly (call, adjusted nonce,
\* measurement of the attestation oracle, given shard) and verifies against
\* the account get_enclave_account() returns.
C6_SignatureBindsCallNonceMeasurementShard ==
    \A t \in Threads :
        SignedOk(t) =>
            LET tcs == frame[t].result.tcs
            IN  /\ tcs.call = frame[t].call
                /\ tcs.nonce = (frame[t].current_nonce + len(frame[t].pending)) % IndexModulus
                /\ tcs.signature.payload = <<frame[t].call, tcs.nonce, ocall_api, frame[t].shard>>
                /\ get_enclave_account(shielding_key_repo).ok
                /\ verify_signature(tcs, get_enclave_account(shielding_key_repo).account,
                                    ocall_api, frame[t].shard)

\* Call c2 signed for shard s2 under the second master secret with a nonce
\* that counts a pending call.
C6_Witness ==
    \E t \in Threads :
        /\ SignedOk(t)
        /\ frame[t].call = "c2" /\ frame[t].shard = "s2"
        /\ shielding_key_repo = "k2"
        /\ len(frame[t].pending) >= 1
        /\ frame[t].result.tcs.nonce = frame[t].current_nonce + len(frame[t].pending)
        /\ verify_signature(frame[t].result.tcs, "A2", ocall_api, "s2")

\* C7: for a shard whose state is readable, get_shard_vault(shard) returns
\* the vault configured in that shard's state, and VaultUndefined when none
\* is configured.
C7_VaultIsTheShardsOwn ==
    \A t \in Threads :
        (/\ frame[t].pc = "done" /\ frame[t].op = "vault"
         /\ state_observer[frame[t].shard].accessible)
        => frame[t].result =
              IF state_observer[frame[t].shard].vault = NoVault
              THEN Err(VaultUndefined)
              ELSE OkAccount(state_observer[frame[t].shard].vault)

\* The vault of a shard returned while the other shard has another vault.
C7_Witness ==
    \E t \in Threads, x \in Shards :
        /\ frame[t].pc = "done" /\ frame[t].op = "vault"
        /\ x # frame[t].shard
        /\ state_observer[x].vault \notin {NoVault, state_observer[frame[t].shard].vault}
        /\ state_observer[frame[t].shard].vault # NoVault
        /\ frame[t].result = OkAccount(state_observer[frame[t].shard].vault)

\* C8: VaultUndefined and StateReadFailure are different failures:
\* get_shard_vault fails with VaultUndefined exactly for a readable shard
\* without a vault, and with StateReadFailure exactly for an inaccessible
\* shard, whether or not a vault is configured in it.
C8_VaultUndefinedIsNotStateReadFailure ==
    /\ Err(VaultUndefined) # Err(StateReadFailure)
    /\ \A t \in Threads :
          (frame[t].pc = "done" /\ frame[t].op = "vault") =>
              LET st == state_observer[frame[t].shard]
              IN  /\ frame[t].result = Err(VaultUndefined)
                       <=> (st.accessible /\ st.vault = NoVault)
                  /\ frame[t].result = Err(StateReadFailure) <=> ~st.accessible

\* get_shard_vault on an inaccessible shard that has no vault.
C8_Witness ==
    \E t \in Threads :
        /\ frame[t].pc = "done" /\ frame[t].op = "vault"
        /\ ~state_observer[frame[t].shard].accessible
        /\ state_observer[frame[t].shard].vault = NoVault
        /\ frame[t].result = Err(StateReadFailure)

\* C9: no step of sign_call_with_self, get_enclave_account or get_shard_vault
\* (entering the operation, any of its steps, its completion with a result or
\* a failure) changes the committed state, the pending pool or the master
\* secret.
C9_OperationsOnlyRead ==
    [][(\E t \in Threads : frame'[t] # frame[t] /\ frame'[t].pc # "idle")
          => /\ state_observer' = state_observer
             /\ top_pool_author' = top_pool_author
             /\ shielding_key_repo' = shielding_key_repo
             /\ ocall_api' = ocall_api]_vars

\* A call signed and a failed operation, with the signed call not in the pool
\* and the committed nonce where the signer read it.
C9_Witness ==
    \E t, u \in Threads :
        /\ SignedOk(t)
        /\ frame[u].pc = "done" /\ frame[u].result.kind = "Err"
        /\ top_pool_author[frame[t].shard] = EmptyBag
        /\ state_observer[frame[t].shard].nonce[frame[t].nonce_account] = frame[t].current_nonce

\* C10: get_enclave_account() is a function of the master secret alone: its
\* result is the result of the call against any other attestation state,
\* shard states and pool contents under the same master secret.
C10_AccountDependsOnMasterSecretOnly ==
    \A t \in Threads :
        (frame[t].pc = "done" /\ frame[t].op = "account") =>
            \A oc \in Measurements \cup {"unavailable"}, o \in OtherShardContents :
                frame[t] \in RunFrames(AccountFrame, oc, shielding_key_repo,
                                       [x \in Shards |-> o.state], [x \in Shards |-> o.pool])

\* The account returned under the second master secret, after calls were
\* signed, submitted and confirmed.
C10_Witness ==
    \E t \in Threads :
        /\ frame[t].pc = "done" /\ frame[t].op = "account"
        /\ shielding_key_repo = "k2"
        /\ frame[t].result = OkAccount("A2")
        /\ \E s \in Shards : PendingOf(s, "A1") >= 1 /\ state_observer[s].nonce["A1"] >= 1

----------------------------------------------------------------------------
\* Vocabulary of the mock executor's properties.

DoneCall(t, op) == executor_call[t].pc = "done" /\ executor_call[t].op = op
ReturnedBatch(t) ==
    DoneCall(t, "propose_state_update") /\ executor_call[t].result.kind = "Ok"
ReturnedState(t) == DoneCall(t, "get_state") /\ executor_call[t].result.kind = "Ok"

\* C11: in sequential use, propose_state_update with transformation f on
\* stored state s returns state_after_execution = f(s) and leaves f(s) stored,
\* whatever header, shard and max_exec_duration it is given; with the identity
\* both equal s; a get_state returns the stored state. A call does not return
\* only when a transformation has panicked (C17).
C11_PostStateIsTransformedState ==
    \A t \in Threads :
        LET c == executor_call[t]
            fs == prepare_state_function(c.prepare_state_function, c.cloned)
        IN  /\ DoneCall(t, "propose_state_update") =>
                  IF c.result.kind = "Ok"
                  THEN /\ c.result.state_after_execution = fs
                       /\ state = fs
                       /\ c.prepare_state_function = "identity" => state = c.cloned
                  ELSE state_lock.poisoned
            /\ DoneCall(t, "get_state") =>
                  IF c.result.kind = "Ok" THEN c.result.state = state
                                          ELSE state_lock.poisoned

\* A batch given no time (max_exec_duration 0) that reset state e2 to e0.
C11_Witness ==
    \E t \in Threads :
        /\ ReturnedBatch(t)
        /\ executor_call[t].prepare_state_function = "reset"
        /\ executor_call[t].max_exec_duration = "0s"
        /\ executor_call[t].header = "h2" /\ executor_call[t].shard = "s2"
        /\ executor_call[t].cloned = "e2"
        /\ executor_call[t].result.state_after_execution = "e0"
        /\ state = "e0"

\* C12: a propose_state_update that returns, returns as many execution
\* records as it was given calls (none for an empty batch), the i-th being the
\* success record of the i-th call: keyed by that call's content hash, holding
\* that call, with an empty side-effect log; whatever the transformation.
C12_OneSuccessRecordPerCall ==
    \A t \in Threads :
        ReturnedBatch(t) =>
            LET calls == executor_call[t].trusted_calls
                ops == executor_call[t].result.executed_operations
            IN  /\ Len(ops) = Len(calls)
                /\ \A i \in 1..Len(calls) :
                      /\ ops[i].status.kind = "Success"
                      /\ ops[i].status.hash = hash(calls[i])
                      /\ ops[i].status.extrinsic_call_backs = << >>
                      /\ ops[i].trusted_operation_or_hash = from_top(calls[i])

\* A batch holding the same call twice, returned with two records, by a call
\* whose transformation changed the state.
C12_Witness ==
    \E t \in Threads :
        /\ ReturnedBatch(t)
        /\ executor_call[t].trusted_calls = <<"c2", "c2">>
        /\ Len(executor_call[t].result.executed_operations) = 2
        /\ executor_call[t].result.state_after_execution # executor_call[t].cloned

\* C13: the signer does not serialize its invocations: a thread inside an
\* operation can always take its next step, whatever the other thread is
\* doing; and two threads that are both about to sign for the same account
\* and shard, having read the same committed nonce and counted the same
\* number of pending calls, can only sign with one and the same adjusted
\* nonce (when the sum does not overflow).
C13_ConcurrentSignersCollide ==
    /\ \A t \in Threads : frame[t].pc \notin {"idle", "done"} => ENABLED Step(t)
    /\ \A t, u \in Threads :
          (/\ t # u
           /\ frame[t].pc = "sign" /\ frame[u].pc = "sign"
           /\ frame[t].shard = frame[u].shard
           /\ frame[t].enclave_account = frame[u].enclave_account
           /\ frame[t].current_nonce = frame[u].current_nonce
           /\ len(frame[t].pending) = len(frame[u].pending)
           /\ frame[t].current_nonce + len(frame[t].pending) <= IndexMax)
          => \A r \in SignOutcomes(frame[t]), q \in SignOutcomes(frame[u]) :
                /\ r.kind = "Ok" /\ q.kind = "Ok"
                /\ r.tcs.nonce = q.tcs.nonce
                /\ r.tcs.nonce = frame[t].current_nonce + len(frame[t].pending)

\* Two threads inside sign_call_with_self at once, for different calls, both
\* past their reads of the same committed nonce and of the same non-empty set
\* of pending calls of the same account.
C13_Witness ==
    \E t, u \in Threads :
        /\ t # u
        /\ frame[t].pc = "sign" /\ frame[u].pc = "sign"
        /\ frame[t].call # frame[u].call
        /\ frame[t].shard = frame[u].shard
        /\ frame[t].enclave_account = frame[u].enclave_account
        /\ frame[t].nonce_account = frame[t].enclave_account
        /\ frame[u].nonce_account = frame[u].enclave_account
        /\ frame[t].current_nonce = frame[u].current_nonce
        /\ frame[t].pending = frame[u].pending
        /\ len(frame[t].pending) >= 1
        /\ frame[t].current_nonce + len(frame[t].pending) <= IndexMax
        /\ \E r \in SignOutcomes(frame[t]), q \in SignOutcomes(frame[u]) :
              r.kind = "Ok" /\ q.kind = "Ok" /\ r.tcs.nonce = q.tcs.nonce /\ r.tcs # q.tcs

Range(q) == {q[i] : i \in DOMAIN q}

\* The order of the collaborator steps of sign_call_with_self.
SignSteps == <<"mr_enclave", "enclave_account", "signing_key", "nonce_account",
               "observe_nonce", "pending", "sign">>
StepIndex(pc) == CHOOSE i \in 1..Len(SignSteps) : SignSteps[i] = pc

\* The failure the collaborator that frame f calls next answers with in the
\* current state, "none" when it answers.
FailureAhead(f) ==
    CASE f.pc = "mr_enclave" ->
            IF ocall_api = "unavailable" THEN AttestationUnavailable ELSE "none"
      [] f.pc \in {"enclave_account", "signing_key", "nonce_account"} ->
            IF shielding_key_repo = "none" THEN KeyRetrievalFailure
            ELSE IF derive_ed25519(shielding_key_repo) = "none" THEN KeyDerivationFailure
                 ELSE "none"
      [] f.pc = "observe_nonce" ->
            IF state_observer[f.shard].accessible THEN "none" ELSE StateReadFailure
      [] OTHER -> "none"

\* Nothing of the steps from f.pc on has been done: their locals are as the
\* invocation found them (in SpecSteps a committed nonce read is 1 and a pool
\* read is not empty).
StepsAheadNotPerformed(f) ==
    LET i == StepIndex(f.pc)
    IN  /\ i <= 1 => f.mr_enclave = "none"
        /\ i <= 2 => f.enclave_account = "none"
        /\ i <= 3 => f.enclave_call_signing_key = "none"
        /\ i <= 4 => f.nonce_account = "none"
        /\ i <= 5 => f.current_nonce = 0
        /\ i <= 6 => f.pending = EmptyBag
        /\ f.result = NoResult

\* C14: every step of sign_call_with_self before the signing calls one
\* collaborator once: if that collaborator fails (attestation unavailable,
\* key not retrievable or not derivable, shard state inaccessible) the
\* invocation ends at that step with that failure and no signed call, with
\* none of the later steps performed (the committed state and the pool unread
\* after an attestation failure); otherwise it moves on to the next step.
C14_FailedStepEndsTheInvocation ==
    [][\A t \in Threads :
          (frame'[t] # frame[t] /\ frame[t].pc \in (Range(SignSteps) \ {"sign"})) =>
              /\ StepsAheadNotPerformed(frame[t])
              /\ IF FailureAhead(frame[t]) # "none"
                 THEN frame'[t] = Finished(frame[t], Err(FailureAhead(frame[t])))
                 ELSE /\ frame'[t].pc = SignSteps[StepIndex(frame[t].pc) + 1]
                      /\ StepsAheadNotPerformed(frame'[t])]_vars

\* An invocation that failed at its second or third key retrieval (the
\* master secret was replaced under it) and returned without reading the
\* committed state or the pool.
C14_Witness ==
    \E t \in Threads :
        /\ DoneSign(t)
        /\ frame[t].result = Err(KeyDerivationFailure)
        /\ frame[t].mr_enclave = "m1"
        /\ frame[t].enclave_account = "A1"
        /\ frame[t].current_nonce = 0
        /\ frame[t].pending = EmptyBag
        /\ state_observer[frame[t].shard].nonce["A1"] = 1
        /\ PendingOf(frame[t].shard, "A1") = 1

\* C15: every nonce sign_call_with_self signs with is at least the committed
\* nonce the same invocation read.
C15_AdjustedNonceAtLeastCommitted ==
    \A t \in Threads :
        SignedOk(t) => frame[t].result.tcs.nonce >= frame[t].current_nonce

\* Where a call holds the lock: propose_state_update from the acquisition of
\* the write guard to its return, get_state from the acquisition of the read
\* guard to its return.
HoldsWrite(t) == executor_call[t].pc \in {"prepare", "store", "records"}
HoldsRead(t) == executor_call[t].pc \in {"clone", "release"}

\* C16: a propose_state_update that holds the lock holds it alone: no other
\* propose_state_update and no get_state is inside the lock with it. No
\* update is lost: the state a propose_state_update stores is its
\* transformation of the state that is stored at that moment, and while
\* nobody writes the stored state is the initial state or the post-state of a
\* propose_state_update that has returned. get_state returns only such states.
C16_WriterExcludesAllOthers ==
    /\ \A t, u \in Threads :
          (t # u /\ HoldsWrite(t)) => ~HoldsWrite(u) /\ ~HoldsRead(u)
    /\ \A t \in Threads :
          LET c == executor_call[t]
          IN  /\ c.pc = "store" =>
                    /\ c.cloned = state
                    /\ c.updated_state = prepare_state_function(c.prepare_state_function, state)
              /\ c.pc = "records" => state = c.updated_state
              /\ c.pc = "release" => c.cloned \in completed
              /\ ReturnedState(t) => c.result.state \in completed
    /\ (\A t \in Threads : ~HoldsWrite(t)) => state \in completed

\* A propose_state_update about to store a new state while the other thread's
\* propose_state_update waits for the lock, after an earlier update returned.
C16_Witness ==
    \E t, u \in Threads :
        /\ t # u
        /\ executor_call[t].pc = "store"
        /\ executor_call[t].updated_state # state
        /\ executor_call[u].pc = "write"
        /\ executor_call[u].prepare_state_function = "reset"
        /\ Cardinality(completed) >= 2
        /\ state_lock.writer = t

\* C17: a propose_state_update whose transformation panics changes nothing
\* (the stored state stays the pre-state, no execution records are returned)
\* and releases the lock, and the calls that come after it still acquire the
\* lock and complete: no get_state and no propose_state_update ends in a
\* panic of its own lock acquisition.
C17_PanicLeavesExecutorUsable ==
    /\ \A t \in Threads :
          (DoneCall(t, "propose_state_update")
             /\ executor_call[t].result = Panic(TransformationPanic)) =>
              /\ state = executor_call[t].cloned
              /\ executor_call[t].result.executed_operations = << >>
              /\ state_lock.writer # t
    /\ \A u \in Threads :
          executor_call[u].pc = "done" => executor_call[u].result # Panic(PoisonError)

C19_NonceAccountIsTheSigner ==
    \A t \in Threads :
        SignedOk(t) =>
            /\ frame[t].enclave_account = public(frame[t].result.tcs.signature.signer)
            /\ frame[t].nonce_account = public(frame[t].result.tcs.signature.signer)

\* The committed nonce of account a in shard s, and the nonce after its last
\* pending call.
Committed(s, a) == state_observer[s].nonce[a]
Adjusted(s, a) == Committed(s, a) + PendingOf(s, a)

\* C20: in sequential use, where a signed call is inserted into the pool
\* before the next is signed and leaves it only by confirmation, for every
\* account and shard and as long as nothing overflows: a confirmation leaves
\* the adjusted nonce unchanged; a call is signed with the adjusted nonce; its
\* insertion raises the adjusted nonce by one; and the pending calls carry the
\* consecutive nonces from the committed one on, each once (none signed
\* twice, none skipped).
C20_SequentialNoncesAreConsecutive ==
    [][\A s \in Shards :
          /\ (state_observer'[s] # state_observer[s] \/ top_pool_author'[s] # top_pool_author[s]) =>
                \A a \in Accounts :
                    LET n == Committed(s, a)
                        p == PendingOf(s, a)
                        n2 == Committed(s, a)'
                        p2 == PendingOf(s, a)'
                    IN  /\ n2 # n => n2 = n + 1 /\ p2 = p - 1
                        /\ p2 > p =>
                              /\ n2 + p2 = n + p + 1
                              /\ n + p <= IndexMax =>
                                    CopiesIn([author |-> a, nonce |-> n + p],
                                             top_pool_author'[s]) = 1
                        /\ n2 + p2 <= IndexMax + 1 =>
                              get_pending_trusted_calls_for(top_pool_author', s, a)
                                  = Backlog(a, n2, p2)
          /\ \A t \in Threads :
                (/\ frame'[t] # frame[t]
                 /\ SignedOk(t)'
                 /\ frame'[t].shard = s
                 /\ Adjusted(s, frame'[t].enclave_account) <= IndexMax)
                => frame'[t].result.tcs.nonce = Adjusted(s, frame'[t].enclave_account)]_vars

\* The third call in a row signed for an account and shard: nonces 0 and 1
\* were signed and inserted, 0 was confirmed, 1 is pending, 2 is signed.
C20_Witness ==
    \E t \in Threads :
        /\ SignedOk(t)
        /\ frame[t].enclave_account = EnclaveAccount
        /\ Committed(frame[t].shard, EnclaveAccount) = 1
        /\ get_pending_trusted_calls_for(top_pool_author, frame[t].shard, EnclaveAccount)
              = Backlog(EnclaveAccount, 1, 1)
        /\ frame[t].result.tcs.nonce = 2

====
